---- MODULE Spec2Model ----
(***************************************************************************)
(* The PageRank notebook (cugraph/link_analysis/Pagerank.ipynb) as a state *)
(* machine: the notebook's variables are the state, every code cell is an  *)
(* action (a loop in a cell is stepped one iteration at a time), and a     *)
(* cell that raises ends the run, as "Run All" does. The cells modelled    *)
(* are 4 to 17; the degree cells 18 and 19 read G alone and are left out.  *)
(*                                                                         *)
(* Floating-point scores are fixed-point integers; a data frame is a       *)
(* sequence of rows, each carrying the row label the frame's index gives   *)
(* it, its vertex and its pagerank.                                        *)
(***************************************************************************)
EXTENDS Integers, Sequences, FiniteSets, TLC

VARIABLES
    pc,         \* the cell (or the loop position inside a cell) to run next
    err,        \* the exception that ended the run, "none" while it runs
    assigned,   \* the names the notebook has assigned so far
    datafile,   \* the lines of the file at the path cell 5 names
    max_iter,   \* cell 4
    tol,        \* cell 4, in fixed point
    alpha,      \* cell 4, in hundredths
    cu_args,    \* how cell 11 calls cugraph.pagerank: "none" as written, or "given"
    Gnx,        \* cell 6's NetworkX graph
    pr_nx,      \* cell 7's reference score table
    call,       \* the locals of the pagerank call that is running
    gdf,        \* cell 9's edge list
    G,          \* cell 10's cugraph.Graph
    gdf_page,   \* cell 11's accelerated score table
    bestScore,  \* cell 12
    bestVert,   \* cell 12
    pr_max,     \* cell 13's maximum score
    t_mode,     \* how cell 15 calls print_pagerank_threshold
    t_given,    \* the threshold it passes when t_mode = "given"
    t,          \* print_pagerank_threshold's parameter t
    filtered,   \* print_pagerank_threshold's local frame
    sort_pr,    \* cell 16's sorted score table
    i,          \* the loop index of the running cell
    out         \* the lines printed so far, per printing cell

\* What the prep cells and the way the cells are written fix for a run.
setup == <<datafile, max_iter, tol, alpha, cu_args, t_mode, t_given>>
\* The reference side, the accelerated side, the reporting cells.
nxvars == <<Gnx, pr_nx>>
cuvars == <<gdf, G, gdf_page>>
scanvars == <<bestScore, bestVert>>
repvars == <<pr_max, t, filtered>>
sortvars == <<sort_pr>>

vars ==
    <<pc, err, assigned, setup, nxvars, call, cuvars, scanvars, repvars, sortvars, i, out>>

\* ------------------------------------------------------------------ bounds
\* The lines of a data file.
MaxLines == 2
\* The rows and the largest score of a score table given to the reporting cells.
MaxRows == 3
MaxScore == 2

\* The rows of a score table given to the top-three cells: more than head(3) takes.
MaxTopRows == 4

\* A notebook variable that has not been assigned yet.
Unset == 0 - 1

\* ------------------------------------------------------------ the data file
\* A line of the data file is the sequence of its delimiter-separated fields,
\* a field is its text.
VertexFields == {"0", "1", "2"}

IsInt(field) == field \in {"0", "1", "2", "3"}

\* The int32 a field parses to.
IntOf(field) ==
    CASE field = "0" -> 0
      [] field = "1" -> 1
      [] field = "2" -> 2
      [] field = "3" -> 3

\* One edge per line, "src<TAB>dst".
EdgeLines == {<<a, b>> : a \in VertexFields, b \in VertexFields}

\* Lines that are not two integer fields: a blank line, a single field, a field
\* that is no integer, a third field.
BadLines == {<<>>, <<"1">>, <<"a", "1">>, <<"1", "2", "3">>}

WellFormed(line) == Len(line) = 2 /\ IsInt(line[1]) /\ IsInt(line[2])

\* ------------------------------------------------------------- arithmetic
\* Scores are fixed-point: Scale stands for 1.0.
Scale == 1000 * 1000

Abs(n) == IF n < 0 THEN 0 - n ELSE n

\* The sum of f over its domain.
RECURSIVE SumFn(_)
SumFn(f) ==
    IF DOMAIN f = {} THEN 0
    ELSE LET d == CHOOSE e \in DOMAIN f : TRUE
         IN f[d] + SumFn([e \in DOMAIN f \ {d} |-> f[e]])

\* ---------------------------------------------------------------- NetworkX
\* A NetworkX graph: its nodes in insertion order and its adjacency, which for
\* an undirected Graph holds both directions of every edge.
NxEmpty == [nodes |-> <<>>, adj |-> {}]

NodeSet(Gx) == {Gx.nodes[k] : k \in 1..Len(Gx.nodes)}

AddNode(Gx, u) ==
    IF u \in NodeSet(Gx) THEN Gx ELSE [Gx EXCEPT !.nodes = Append(@, u)]

\* G.add_edge(u, v): nodes are the field texts themselves (nodetype=None).
AddEdge(Gx, u, v) ==
    [AddNode(AddNode(Gx, u), v) EXCEPT !.adj = @ \cup {<<u, v>>, <<v, u>>}]

\* parse_edgelist refusing every line that is not two fields.
RECURSIVE ParseEdgelistStrict(_, _)
ParseEdgelistStrict(lines, Gx) ==
    IF lines = <<>> THEN [raised |-> "none", G |-> Gx]
    ELSE LET s == Head(lines) IN
         IF Len(s) # 2 THEN [raised |-> "TypeError", G |-> NxEmpty]
         ELSE ParseEdgelistStrict(Tail(lines), AddEdge(Gx, s[1], s[2]))

\* parse_edgelist, as read_edgelist(file) calls it (delimiter=None, nodetype=None,
\* data=True): a line with fewer than two fields is skipped, the first two fields
\* are an edge, and further fields must evaluate to a dict or TypeError is raised.
RECURSIVE ParseEdgelist(_, _)
ParseEdgelist(lines, Gx) ==
    IF lines = <<>> THEN [raised |-> "none", G |-> Gx]
    ELSE LET s == Head(lines) IN
         IF Len(s) < 2 THEN ParseEdgelist(Tail(lines), Gx)
         ELSE IF Len(s) > 2 THEN [raised |-> "TypeError", G |-> NxEmpty]
         ELSE ParseEdgelist(Tail(lines), AddEdge(Gx, s[1], s[2]))

\* nx.read_edgelist(file)
ReadEdgelist(lines) == ParseEdgelist(lines, NxEmpty)

\* The link weights nx.pagerank walks: G.to_directed() of the undirected graph.
NxWeights(Gx) ==
    [e \in NodeSet(Gx) \X NodeSet(Gx) |-> IF e \in Gx.adj THEN 1 ELSE 0]

\* ----------------------------------------------------------- power iteration
OutWeight(V, W, m) == SumFn([n \in V |-> W[<<m, n>>]])

\* x = dict.fromkeys(W, 1.0 / N)
StartVector(V) == [n \in V |-> Scale \div Cardinality(V)]

\* The sweep without the (1 - a) / N that every node is given.
PowerStepNoTeleport(V, W, x, a) ==
    LET N == Cardinality(V)
        dangling == {m \in V : OutWeight(V, W, m) = 0}
        danglesum == (a * SumFn([m \in dangling |-> x[m]])) \div 100
        from(m, n) ==
            IF W[<<m, n>>] = 0 THEN 0
            ELSE (a * x[m] * W[<<m, n>>]) \div (100 * OutWeight(V, W, m))
    IN [n \in V |-> SumFn([m \in V |-> from(m, n)]) + danglesum \div N]

\* One sweep of the power iteration with damping a (in hundredths): every node
\* hands a * x / outweight along each link, the nodes without links are spread
\* evenly, and (1 - a) / N is added.
PowerStep(V, W, x, a) ==
    LET N == Cardinality(V)
        dangling == {m \in V : OutWeight(V, W, m) = 0}
        danglesum == (a * SumFn([m \in dangling |-> x[m]])) \div 100
        from(m, n) ==
            IF W[<<m, n>>] = 0 THEN 0
            ELSE (a * x[m] * W[<<m, n>>]) \div (100 * OutWeight(V, W, m))
    IN [n \in V |->
           SumFn([m \in V |-> from(m, n)])
           + danglesum \div N
           + ((100 - a) * (Scale \div N)) \div 100]

\* err = sum(abs(x[n] - xlast[n]))
L1Diff(x, xlast) == SumFn([n \in DOMAIN x |-> Abs(x[n] - xlast[n])])

\* ------------------------------------------------------------- data frames
Row(l, v, s) == [label |-> l, vertex |-> v, pagerank |-> s]

\* cugraph.pagerank's result: row k (0-based) is labelled k and holds vertex k.
Frame(scores) ==
    [k \in 1..Len(scores) |-> Row(k - 1, k - 1, scores[k])]

\* The lookup counting rows from the end of the frame.
LookupFromEnd(df, col, k) == df[Len(df) - k][col]

\* The lookup by row label: the row labelled k, and no value when no row is.
LookupByLabel(df, col, k) ==
    IF \E n \in 1..Len(df) : df[n].label = k
    THEN df[CHOOSE n \in 1..Len(df) : df[n].label = k][col]
    ELSE Unset

\* df['col'][k] for a 0-based integer k: the k-th row of the frame.
Lookup(df, col, k) == df[k + 1][col]

\* The query with a strict comparison.
QueryStrict(df, th) == SelectSeq(df, LAMBDA r : r.pagerank > th)

\* _df.query('pagerank >= @t'): the rows that pass, in frame order, labels kept.
Query(df, th) == SelectSeq(df, LAMBDA r : r.pagerank >= th)

\* The sort in ascending order.
SortValuesAsc(df) ==
    LET n == Len(df)
        perms == {p \in [1..n -> 1..n] : \A a, b \in 1..n : a # b => p[a] # p[b]}
    IN {[k \in 1..n |-> df[p[k]]] :
           p \in {q \in perms :
                     \A k \in 1..(n - 1) : df[q[k]].pagerank <= df[q[k + 1]].pagerank}}

\* The frames df.sort_values('pagerank', ascending=False) may return: the rows of
\* df, labels kept, in an order of non-increasing pagerank.
SortValuesDesc(df) ==
    LET n == Len(df)
        perms == {p \in [1..n -> 1..n] : \A a, b \in 1..n : a # b => p[a] # p[b]}
    IN {[k \in 1..n |-> df[p[k]]] :
           p \in {q \in perms :
                     \A k \in 1..(n - 1) : df[q[k]].pagerank >= df[q[k + 1]].pagerank}}

\* head(3): the first three rows, or all of them when there are fewer.
HeadRows == 3
Head3(df) == SubSeq(df, 1, IF Len(df) < HeadRows THEN Len(df) ELSE HeadRows)

\* gdf_page['pagerank'].max()
RECURSIVE SeqMax(_)
SeqMax(s) ==
    IF Len(s) = 1 THEN s[1]
    ELSE LET m == SeqMax(Tail(s)) IN IF s[1] >= m THEN s[1] ELSE m

\* The first row's score taken for the maximum.
ColFirst(df) == df[1].pagerank

ColMax(df) == SeqMax([k \in 1..Len(df) |-> df[k].pagerank])

\* str(x)
Str(x) == <<"str", x>>

\* "Best vertex is " + str(v) + " with score of " + str(s)
BestLine(v, s) == <<"Best vertex is ", Str(v), " with score of ", Str(s)>>

\* The text of a printed line read back: its vertex and its score.
LineVertex(line) == line[2][2]
LineScore(line) == line[4][2]

\* Nothing printed or displayed yet: the outputs of cells 12, 15 and 17.
NoOutput == [scan |-> <<>>, report |-> <<>>, head |-> <<>>]

\* ------------------------------------------------------------- parameters
\* Cell 4: max_iter = 100, tol = 0.00001 (one part in TolCellInv), alpha = 0.85.
MaxIterCell == 100
TolCellInv == 100000
AlphaCell == 85

\* The defaults cugraph.pagerank documents: alpha=0.85, max_iter=100, tol=1.0e-5.
DefaultAlpha == 85
DefaultMaxIter == 100
DefaultTolInv == 100000

\* No pagerank call has run yet.
NoCall ==
    [fn |-> "none", max_iter |-> 0, tol |-> 0, alpha |-> 0, x |-> <<>>, iters |-> 0,
     err |-> 0]

\* range(max_iter + 1).
PassLeftOneMore(c) == c.iters <= c.max_iter

\* range(max_iter) has a pass left for a loop that has done c.iters of them.
PassLeft(c) == c.iters < c.max_iter

\* The exception swallowed and the run going on with the cuGraph cells.
RaiseAndGoOn(e) == pc' = "load_cudf" /\ err' = e

\* A cell raises: the run ends there.
Raise(e) == pc' = "failed" /\ err' = e

\* ------------------------------------------------------- cells 6, 7: NetworkX
\* Cell 6: Gnx = nx.read_edgelist(file)
LoadNx ==
    /\ pc = "load_nx"
    /\ LET r == ReadEdgelist(datafile) IN
         IF r.raised # "none"
         THEN Raise(r.raised) /\ UNCHANGED <<assigned, Gnx>>
         ELSE /\ Gnx' = r.G
              /\ assigned' = assigned \cup {"Gnx"}
              /\ pc' = "pagerank_nx"
              /\ err' = err
    /\ UNCHANGED <<setup, pr_nx, call, cuvars, scanvars, repvars, i, out, sortvars>>

\* Cell 7 entering nx.pagerank(Gnx, alpha=alpha, max_iter=max_iter, tol=tol):
\* an empty graph returns {} at once, otherwise the iteration starts from 1/N.
PagerankNxCall ==
    /\ pc = "pagerank_nx"
    /\ IF Len(Gnx.nodes) = 0
       THEN /\ pr_nx' = <<>>
            /\ assigned' = assigned \cup {"pr_nx"}
            /\ pc' = "load_cudf"
            /\ call' = call
       ELSE /\ call' = [fn |-> "nx.pagerank", max_iter |-> max_iter, tol |-> tol,
                        alpha |-> alpha, x |-> StartVector(NodeSet(Gnx)), iters |-> 0,
                        err |-> 0]
            /\ pc' = "nx_loop"
            /\ UNCHANGED <<assigned, pr_nx>>
    /\ UNCHANGED <<err, setup, Gnx, cuvars, scanvars, repvars, i, out, sortvars>>

\* "for _ in range(max_iter)": one more pass (sweep, then return x when
\* err < N * tol), or, the range exhausted, raise
\* nx.PowerIterationFailedConvergence(max_iter).
NxLoop ==
    /\ pc = "nx_loop"
    /\ IF PassLeft(call)
       THEN LET V == NodeSet(Gnx)
                x == PowerStep(V, NxWeights(Gnx), call.x, call.alpha)
            IN /\ call' = [call EXCEPT !.x = x, !.iters = @ + 1,
                                       !.err = L1Diff(x, call.x)]
               /\ err' = err
               /\ IF L1Diff(x, call.x) < Cardinality(V) * call.tol
                  THEN /\ pr_nx' = x
                       /\ assigned' = assigned \cup {"pr_nx"}
                       /\ pc' = "load_cudf"
                  ELSE UNCHANGED <<pc, assigned, pr_nx>>
       ELSE /\ Raise("PowerIterationFailedConvergence")
            /\ UNCHANGED <<assigned, pr_nx, call>>
    /\ UNCHANGED <<setup, Gnx, cuvars, scanvars, repvars, i, out, sortvars>>

\* ------------------------------------------------- cells 9, 10, 11: cuGraph
\* The reader taking the first line of the file for a header.
ReadCsvRowsHeader(lines) ==
    LET good == SelectSeq(Tail(lines), WellFormed)
    IN [k \in 1..Len(good) |-> [src |-> IntOf(good[k][1]), dst |-> IntOf(good[k][2])]]

\* The rows cudf.read_csv(datafile, names=["src", "dst"], delimiter='\t',
\* dtype=["int32", "int32"]) makes of the lines that are two integers.
RECURSIVE ReadCsvRows(_)
ReadCsvRows(lines) ==
    IF lines = <<>> THEN <<>>
    ELSE IF WellFormed(Head(lines))
         THEN <<[src |-> IntOf(Head(lines)[1]), dst |-> IntOf(Head(lines)[2])]>>
              \o ReadCsvRows(Tail(lines))
         ELSE ReadCsvRows(Tail(lines))

AllWellFormed(lines) == \A k \in 1..Len(lines) : WellFormed(lines[k])

\* Cell 9: gdf = cudf.read_csv(...). What the reader does with a line that is not
\* two integers is not settled by the notebook: it may raise, and it may go on
\* without the line.
LoadCudf ==
    /\ pc = "load_cudf"
    /\ \/ /\ gdf' = ReadCsvRows(datafile)
          /\ assigned' = assigned \cup {"gdf"}
          /\ pc' = "make_graph"
          /\ err' = err
       \/ /\ ~AllWellFormed(datafile)
          /\ Raise("read_csv")
          /\ UNCHANGED <<assigned, gdf>>
    /\ UNCHANGED <<setup, nxvars, call, G, gdf_page, scanvars, repvars, i, out, sortvars>>

\* Cell 10: G = cugraph.Graph(); G.from_cudf_edgelist(gdf, source='src',
\* destination='dst'): the directed edges as given, duplicates kept.
MakeGraph ==
    /\ pc = "make_graph"
    /\ G' = [edges |-> [k \in 1..Len(gdf) |-> <<gdf[k].src, gdf[k].dst>>]]
    /\ assigned' = assigned \cup {"G"}
    /\ pc' = "pagerank_cu"
    /\ UNCHANGED <<err, setup, nxvars, call, gdf, gdf_page, scanvars, repvars, i, out, sortvars>>

\* The vertices of a cugraph.Graph that was not renumbered: the contiguous
\* integers from 0 to the largest identifier of an edge.
CuVertices(Gc) ==
    IF Len(Gc.edges) = 0 THEN {}
    ELSE LET ids == UNION {{Gc.edges[k][1], Gc.edges[k][2]} : k \in 1..Len(Gc.edges)}
         IN 0..(CHOOSE m \in ids : \A n \in ids : n <= m)

CuWeights(Gc) ==
    [e \in CuVertices(Gc) \X CuVertices(Gc) |->
        Cardinality({k \in 1..Len(Gc.edges) : Gc.edges[k] = e})]

\* The parameters taken as they are given.
CuMaxIterAsGiven(m) == m
CuTolAsGiven(tl) == tl

\* The parameters cugraph.pagerank runs with: a max_iter lower than or equal to 0
\* is replaced by the default, and so is a tol of 0.
CuMaxIter(m) == IF m <= 0 THEN DefaultMaxIter ELSE m
CuTol(tl) == IF tl = 0 THEN Scale \div DefaultTolInv ELSE tl

\* The cudf.DataFrame cugraph.pagerank returns: a row per vertex, in vertex order.
CuFrame(x) == Frame([k \in 1..Cardinality(DOMAIN x) |-> x[k - 1]])

\* Cell 11 entering cugraph.pagerank: called as written, cugraph.pagerank(G),
\* it runs with the defaults; called with alpha, max_iter and tol it runs with
\* those, out-of-range values replaced. A graph without edges has no vertex and
\* gets a table without rows.
PagerankCuCall ==
    /\ pc = "pagerank_cu"
    /\ IF CuVertices(G) = {}
       THEN /\ gdf_page' = <<>>
            /\ assigned' = assigned \cup {"gdf_page"}
            /\ pc' = "best_scan"
            /\ call' = call
       ELSE /\ call' = [fn |-> "cugraph.pagerank",
                        max_iter |-> IF cu_args = "none" THEN DefaultMaxIter
                                     ELSE CuMaxIter(max_iter),
                        tol |-> IF cu_args = "none" THEN Scale \div DefaultTolInv
                                ELSE CuTol(tol),
                        alpha |-> IF cu_args = "none" THEN DefaultAlpha ELSE alpha,
                        x |-> StartVector(CuVertices(G)), iters |-> 0, err |-> 0]
            /\ pc' = "cu_loop"
            /\ UNCHANGED <<assigned, gdf_page>>
    /\ UNCHANGED <<err, setup, nxvars, gdf, G, scanvars, repvars, i, out, sortvars>>

\* One iteration of the solver: sweep, then return the scores when the
\* tolerance is reached or max_iter iterations have been done.
CuIterate ==
    /\ pc = "cu_loop"
    /\ PassLeft(call)
    /\ LET x == PowerStep(CuVertices(G), CuWeights(G), call.x, call.alpha)
       IN /\ call' = [call EXCEPT !.x = x, !.iters = @ + 1,
                                  !.err = L1Diff(x, call.x)]
          /\ IF L1Diff(x, call.x) < call.tol \/ ~PassLeft(call')
             THEN /\ gdf_page' = CuFrame(x)
                  /\ assigned' = assigned \cup {"gdf_page"}
                  /\ pc' = "best_scan"
             ELSE UNCHANGED <<pc, assigned, gdf_page>>
    /\ UNCHANGED <<err, setup, nxvars, gdf, G, scanvars, repvars, i, out, sortvars>>

\* ------------------------------------------------- cells 12, 13, 15: results
\* Cell 12, before the loop: bestScore and bestVert from row 0.
ScanStart ==
    /\ pc = "best_scan"
    /\ IF Len(gdf_page) = 0
       THEN Raise("IndexError") /\ UNCHANGED <<assigned, scanvars, i>>
       ELSE /\ bestScore' = Lookup(gdf_page, "pagerank", 0)
            /\ bestVert' = Lookup(gdf_page, "vertex", 0)
            /\ assigned' = assigned \cup {"bestScore", "bestVert"}
            /\ i' = 0
            /\ pc' = "scan_loop"
            /\ err' = err
    /\ UNCHANGED <<setup, nxvars, call, cuvars, repvars, out, sortvars>>

\* The iteration replacing the best on an equal score too.
ScanStepOnEqual ==
    /\ pc = "scan_loop"
    /\ i < Len(gdf_page)
    /\ IF Lookup(gdf_page, "pagerank", i) >= bestScore
       THEN /\ bestScore' = Lookup(gdf_page, "pagerank", i)
            /\ bestVert' = Lookup(gdf_page, "vertex", i)
       ELSE UNCHANGED scanvars
    /\ i' = i + 1
    /\ UNCHANGED <<pc, err, assigned, setup, nxvars, call, cuvars, repvars, out, sortvars>>

\* Cell 12, one iteration of "for i in range(len(gdf_page))".
ScanStep ==
    /\ pc = "scan_loop"
    /\ i < Len(gdf_page)
    /\ IF Lookup(gdf_page, "pagerank", i) > bestScore
       THEN /\ bestScore' = Lookup(gdf_page, "pagerank", i)
            /\ bestVert' = Lookup(gdf_page, "vertex", i)
       ELSE UNCHANGED scanvars
    /\ i' = i + 1
    /\ UNCHANGED <<pc, err, assigned, setup, nxvars, call, cuvars, repvars, out, sortvars>>

\* Cell 12, after the loop: print the best vertex.
ScanPrint ==
    /\ pc = "scan_loop"
    /\ i >= Len(gdf_page)
    /\ out' = [out EXCEPT !.scan = Append(@, BestLine(bestVert, bestScore))]
    /\ pc' = "pr_max"
    /\ UNCHANGED <<err, assigned, setup, nxvars, call, cuvars, scanvars, repvars, i, sortvars>>

\* Cell 13: pr_max = gdf_page['pagerank'].max()
PrMaxCell ==
    /\ pc = "pr_max"
    /\ pr_max' = ColMax(gdf_page)
    /\ assigned' = assigned \cup {"pr_max"}
    /\ pc' = "call_report"
    /\ UNCHANGED <<err, setup, nxvars, call, cuvars, scanvars, t, filtered, i, out, sortvars>>

\* The call made without pr_max: the default threshold unless a number is given.
ThresholdDefault == IF t_mode = "given" THEN t_given ELSE 0

\* The threshold cell 15 passes: pr_max as the notebook does, the default of the
\* signature (t=0), or a given number.
Threshold ==
    CASE t_mode = "pr_max" -> pr_max
      [] t_mode = "default" -> 0
      [] OTHER -> t_given

\* Cell 15 entering print_pagerank_threshold: filtered = _df.query(...)
ReportCall ==
    /\ pc = "call_report"
    /\ t' = Threshold
    /\ filtered' = Query(gdf_page, Threshold)
    /\ i' = 0
    /\ pc' = "report_loop"
    /\ UNCHANGED <<err, assigned, setup, nxvars, call, cuvars, scanvars, pr_max, out, sortvars>>

\* One iteration of "for i in range(len(filtered))": print the i-th row.
ReportPrint ==
    /\ pc = "report_loop"
    /\ i < Len(filtered)
    /\ out' = [out EXCEPT !.report =
                   Append(@, BestLine(Lookup(filtered, "vertex", i),
                                      Lookup(filtered, "pagerank", i)))]
    /\ i' = i + 1
    /\ UNCHANGED <<pc, err, assigned, setup, nxvars, call, cuvars, scanvars, repvars, sortvars>>

\* The loop is exhausted: print_pagerank_threshold returns.
ReportReturn ==
    /\ pc = "report_loop"
    /\ i >= Len(filtered)
    /\ pc' = "sort"
    /\ UNCHANGED <<err, assigned, setup, nxvars, call, cuvars, scanvars, repvars, i, out, sortvars>>

\* The sort done in place: gdf_page itself reordered, sort_pr naming it.
SortCellInPlace ==
    /\ pc = "sort"
    /\ gdf_page' \in SortValuesDesc(gdf_page)
    /\ sort_pr' = gdf_page'
    /\ assigned' = assigned \cup {"sort_pr"}
    /\ pc' = "head"
    /\ UNCHANGED <<err, setup, nxvars, call, gdf, G, scanvars, repvars, i, out>>

\* Cell 16: sort_pr = gdf_page.sort_values('pagerank', ascending=False), a new
\* frame; the order it gives rows of equal score is not settled by the notebook.
SortCell ==
    /\ pc = "sort"
    /\ sort_pr' \in SortValuesDesc(gdf_page)
    /\ assigned' = assigned \cup {"sort_pr"}
    /\ pc' = "head"
    /\ UNCHANGED <<err, setup, nxvars, call, cuvars, scanvars, repvars, i, out>>

\* Cell 17: sort_pr.head(3).to_pandas(), displayed.
HeadCell ==
    /\ pc = "head"
    /\ out' = [out EXCEPT !.head = Head3(sort_pr)]
    /\ pc' = "done"
    /\ UNCHANGED <<err, assigned, setup, nxvars, call, cuvars, scanvars, repvars,
                   sortvars, i>>

\* ----------------------------------------------------------- the notebook run
DataFiles == UNION {[1..n -> EdgeLines \cup BadLines] : n \in 1..MaxLines}

\* The kernel after the prep cells 1 to 5, nothing computed yet.
Fresh ==
    /\ err = "none"
    /\ Gnx = NxEmpty
    /\ pr_nx = <<>>
    /\ call = NoCall
    /\ gdf = <<>>
    /\ G = [edges |-> <<>>]
    /\ bestScore = Unset
    /\ bestVert = Unset
    /\ pr_max = Unset
    /\ t = Unset
    /\ filtered = <<>>
    /\ sort_pr = <<>>
    /\ i = 0
    /\ out = NoOutput

\* The notebook as written, on any data file.
Init ==
    /\ pc = "load_nx"
    /\ datafile \in DataFiles
    /\ max_iter = MaxIterCell
    /\ tol = Scale \div TolCellInv
    /\ alpha = AlphaCell
    /\ cu_args = "none"
    /\ t_mode = "pr_max"
    /\ t_given = 0
    /\ Fresh
    /\ assigned = {}
    /\ gdf_page = <<>>

Next ==
    \/ LoadNx \/ PagerankNxCall \/ NxLoop
    \/ LoadCudf \/ MakeGraph \/ PagerankCuCall \/ CuIterate
    \/ ScanStart \/ ScanStep \/ ScanPrint
    \/ PrMaxCell \/ ReportCall \/ ReportPrint \/ ReportReturn
    \/ SortCell \/ HeadCell

Spec == Init /\ [][Next]_vars

\* --------------------------------------------- the calls on any parameters
\* Well-formed data files for the runs that vary the parameters.
ParamLines == {<<"1", "2">>, <<"2", "1">>, <<"0", "2">>}
ParamFiles == UNION {[1..n -> ParamLines] : n \in 1..MaxLines}

\* Values of max_iter and of tol (in fixed point) a caller may write in cell 4.
IterCaps == {0 - 1, 0, 1, 3, MaxIterCell}
Tolerances == {0, Scale \div TolCellInv, Scale \div 100}

\* The notebook with any parameters in cell 4 and cell 11 passing them on,
\* cugraph.pagerank(G, alpha, max_iter, tol); the NetworkX cells and the cuGraph
\* cells do not depend on each other, so a run starts with either.
InitParams ==
    /\ pc \in {"load_nx", "load_cudf"}
    /\ datafile \in ParamFiles
    /\ max_iter \in IterCaps
    /\ tol \in Tolerances
    /\ alpha = AlphaCell
    /\ cu_args = "given"
    /\ t_mode = "pr_max"
    /\ t_given = 0
    /\ Fresh
    /\ assigned = {}
    /\ gdf_page = <<>>

SpecParams == InitParams /\ [][Next]_vars

\* ------------------------------------------------------ the two-edge file
\* The data file of the edges (1, 2) and (2, 3): its two lines in either order,
\* each edge written from either end.
ScenarioFiles ==
    {<<a, b>> : a \in {<<"1", "2">>, <<"2", "1">>}, b \in {<<"2", "3">>, <<"3", "2">>}}
    \cup {<<b, a>> : a \in {<<"1", "2">>, <<"2", "1">>}, b \in {<<"2", "3">>, <<"3", "2">>}}

\* The notebook as written on the two-edge file.
InitScenario ==
    /\ pc = "load_nx"
    /\ datafile \in ScenarioFiles
    /\ max_iter = MaxIterCell
    /\ tol = Scale \div TolCellInv
    /\ alpha = AlphaCell
    /\ cu_args = "none"
    /\ t_mode = "pr_max"
    /\ t_given = 0
    /\ Fresh
    /\ assigned = {}
    /\ gdf_page = <<>>

SpecScenario == InitScenario /\ [][Next]_vars

\* ------------------------------------------------- the reporter on any table
ScoreLists == UNION {[1..n -> 0..MaxScore] : n \in 1..MaxRows}

\* The reporting cells on any score table cugraph.pagerank can return, cell 15
\* passing any threshold.
InitReport ==
    /\ pc = "best_scan"
    /\ datafile = <<>>
    /\ max_iter = MaxIterCell
    /\ tol = Scale \div TolCellInv
    /\ alpha = AlphaCell
    /\ cu_args = "none"
    /\ t_mode \in {"pr_max", "default", "given"}
    /\ t_given \in IF t_mode = "given" THEN 0..(MaxScore + 1) ELSE {0}
    /\ Fresh
    /\ assigned = {"gdf_page"}
    /\ gdf_page \in {Frame(s) : s \in ScoreLists}

NextReport ==
    \/ ScanStart \/ ScanStep \/ ScanPrint
    \/ PrMaxCell \/ ReportCall \/ ReportPrint \/ ReportReturn
    \/ SortCell \/ HeadCell

SpecReport == InitReport /\ [][NextReport]_vars

\* ------------------------------------------- the top three of any table
TopKLists == UNION {[1..n -> 0..MaxScore] : n \in 1..MaxTopRows}

\* The reporting cells as written (cell 15 passing pr_max) on any score table of
\* up to MaxTopRows rows.
InitTopK ==
    /\ pc = "best_scan"
    /\ datafile = <<>>
    /\ max_iter = MaxIterCell
    /\ tol = Scale \div TolCellInv
    /\ alpha = AlphaCell
    /\ cu_args = "none"
    /\ t_mode = "pr_max"
    /\ t_given = 0
    /\ Fresh
    /\ assigned = {"gdf_page"}
    /\ gdf_page \in {Frame(s) : s \in TopKLists}

SpecTopK == InitTopK /\ [][NextReport]_vars

\* ------------------------------------------------------------------ claims
Emitted == out.report

RowsAtOrAbove(df, th) == {k \in 1..Len(df) : df[k].pagerank >= th}

\* C1: when print_pagerank_threshold(_df, t) has returned, every row of the
\* table with score >= t has been printed exactly once, with its own vertex and
\* its own score, no row with score < t has been printed, and with the default
\* t = 0 every row (all scores are non-negative) has been printed; while the
\* loop runs, exactly i lines have been printed.
C1_EmitsExactlyRowsAtOrAbove ==
    /\ pc = "report_loop" => Len(Emitted) = i
    /\ pc = "done" =>
        /\ \A k \in RowsAtOrAbove(gdf_page, t) :
              Cardinality({n \in 1..Len(Emitted) :
                  Emitted[n] = BestLine(gdf_page[k].vertex, gdf_page[k].pagerank)}) = 1
        /\ \A n \in 1..Len(Emitted) :
              \E k \in RowsAtOrAbove(gdf_page, t) :
                  Emitted[n] = BestLine(gdf_page[k].vertex, gdf_page[k].pagerank)
        /\ Len(Emitted) = Cardinality(RowsAtOrAbove(gdf_page, t))
        /\ t_mode = "default" => t = 0 /\ Len(Emitted) = Len(gdf_page)

\* A finished report that printed some rows, dropped some, and printed a row
\* whose score is exactly the threshold.
C1_Witness ==
    /\ pc = "done"
    /\ Len(Emitted) >= 2
    /\ Len(Emitted) < Len(gdf_page)
    /\ \E n \in 1..Len(Emitted) : LineScore(Emitted[n]) = t

\* C2 as stated: adjacent printed lines are in non-increasing score order, with
\* equal scores in ascending vertex order.
C2_Original_SortedByScore ==
    \A n \in 1..(Len(Emitted) - 1) :
        /\ LineScore(Emitted[n]) >= LineScore(Emitted[n + 1])
        /\ LineScore(Emitted[n]) = LineScore(Emitted[n + 1])
              => LineVertex(Emitted[n]) < LineVertex(Emitted[n + 1])

\* C2 amended: the printed lines are in the order of the table's rows, which for
\* gdf_page is ascending vertex identifier, whatever the scores are; so two
\* adjacent lines with equal scores are in ascending vertex order.
C2_EmittedInTableOrder ==
    \A n \in 1..(Len(Emitted) - 1) :
        LineVertex(Emitted[n]) < LineVertex(Emitted[n + 1])

\* A finished report whose printed scores go up and whose output has a tie.
C2_Witness ==
    /\ pc = "done"
    /\ Len(Emitted) >= 3
    /\ \E n \in 1..(Len(Emitted) - 1) :
          LineScore(Emitted[n]) < LineScore(Emitted[n + 1])
    /\ \E n \in 1..(Len(Emitted) - 1) :
          LineScore(Emitted[n]) = LineScore(Emitted[n + 1])

UniqueMaxRow(df, k) ==
    \A j \in 1..Len(df) : j # k => df[j].pagerank < df[k].pagerank

\* C3: called with the table's maximum as threshold, as cell 15 does, the
\* reporter prints exactly one line when one row alone holds the maximum, and
\* the line is that row's vertex and score.
C3_UniqueMaxOneEntry ==
    (pc = "done" /\ t_mode = "pr_max") =>
        \A k \in 1..Len(gdf_page) :
            UniqueMaxRow(gdf_page, k) =>
                Emitted = <<BestLine(gdf_page[k].vertex, gdf_page[k].pagerank)>>

\* A finished report of a three-row table whose maximum is held by one row only,
\* and not by the first.
C3_Witness ==
    /\ pc = "done"
    /\ t_mode = "pr_max"
    /\ Len(gdf_page) = 3
    /\ UniqueMaxRow(gdf_page, 2)
    /\ Len(Emitted) = 1

\* The vertices of the lines that are edges, as integers.
EdgeVertices(lines) ==
    UNION {{IntOf(lines[k][1]), IntOf(lines[k][2])} :
              k \in {j \in 1..Len(lines) : WellFormed(lines[j])}}

FrameVertices(df) == {df[k].vertex : k \in 1..Len(df)}

\* C4: for a well-formed edge list, the keys of the reference score table and
\* the keys of the accelerated score table are exactly the vertices that occur
\* in the edge list, each once.
C4_KeysAreTheEdgeListVertices ==
    AllWellFormed(datafile) =>
        /\ "pr_nx" \in assigned =>
              {IntOf(n) : n \in DOMAIN pr_nx} = EdgeVertices(datafile)
        /\ "gdf_page" \in assigned =>
              /\ FrameVertices(gdf_page) = EdgeVertices(datafile)
              /\ Len(gdf_page) = Cardinality(EdgeVertices(datafile))

HasLongLine(lines) == \E k \in 1..Len(lines) : Len(lines[k]) > 2

\* The node names read_edgelist takes from the lines of two fields.
TwoFieldNames(lines) ==
    UNION {{lines[k][1], lines[k][2]} : k \in {j \in 1..Len(lines) : Len(lines[j]) = 2}}

\* C5 as stated: a data file with a line that is not two integer fields ends the
\* run at the load, nothing loaded and no later step run.
C5_Original_MalformedLineAbortsTheLoad ==
    ~AllWellFormed(datafile) => pc \in {"load_nx", "failed"} /\ assigned = {}

\* C5 amended: nx.read_edgelist raises (a TypeError) only for a line of more
\* than two fields, and then no graph is produced and no later cell runs; a line
\* of fewer than two fields is skipped and a line of two fields is an edge
\* between the nodes its fields name, integers or not, and the run goes on. When
\* cudf.read_csv raises on a malformed line, the reference computation has
\* already run, no accelerated edge list is produced and no later cell runs.
C5_ReferenceLoaderRaisesOnExtraFieldsOnly ==
    /\ HasLongLine(datafile) =>
          /\ pc \in {"load_nx", "failed"}
          /\ assigned = {}
          /\ pc = "failed" => err = "TypeError"
    /\ (~HasLongLine(datafile) /\ pc # "load_nx") =>
          /\ "Gnx" \in assigned
          /\ NodeSet(Gnx) = TwoFieldNames(datafile)
          /\ err # "TypeError"
    /\ err = "read_csv" =>
          /\ ~AllWellFormed(datafile)
          /\ pc = "failed"
          /\ "pr_nx" \in assigned
          /\ "gdf" \notin assigned

\* The reference computation has run on a file with a one-field line and a
\* line whose first field is no integer.
C5_Witness ==
    /\ "pr_nx" \in assigned
    /\ \E k \in 1..Len(datafile) : Len(datafile[k]) = 1
    /\ "a" \in DOMAIN pr_nx

BadParams == max_iter <= 0 \/ tol <= 0

ZeroOrLess == max_iter <= 0 \/ tol = 0

NonNeg(n) == IF n < 0 THEN 0 ELSE n

C8_Original_CapIsNoError ==
    /\ err # "PowerIterationFailedConvergence"
    /\ call.iters <= NonNeg(call.max_iter)

\* C8 amended: neither computation does more than max_iter iterations.
\* cugraph.pagerank, the tolerance not reached after max_iter iterations, stops
\* there and returns the scores computed so far as its normal result.
\* nx.pagerank returns a score table only when the tolerance is reached; its
\* loop exhausted, it raises PowerIterationFailedConvergence and no reference
\* score table is produced.
C8_CapStopsBothOnlyAcceleratedReturns ==
    /\ call.iters <= NonNeg(call.max_iter)
    /\ call.fn = "cugraph.pagerank" =>
          /\ pc = "cu_loop" => PassLeft(call)
          /\ pc # "cu_loop" =>
                /\ "gdf_page" \in assigned
                /\ gdf_page = CuFrame(call.x)
                /\ err = "none"
    /\ err = "PowerIterationFailedConvergence" =>
          /\ pc = "failed"
          /\ call.iters = NonNeg(max_iter)
          /\ "pr_nx" \notin assigned
          /\ call.iters >= 1 =>
                call.err >= Cardinality(DOMAIN call.x) * call.tol
    /\ (call.fn = "nx.pagerank" /\ "pr_nx" \in assigned) =>
          /\ pr_nx = call.x
          /\ call.err < Cardinality(DOMAIN call.x) * call.tol

\* cugraph.pagerank has returned at the cap, its last sweep still moving the
\* scores by more than the tolerance.
C8_Witness ==
    /\ pc = "done"
    /\ call.fn = "cugraph.pagerank"
    /\ call.iters = call.max_iter
    /\ call.iters >= 3
    /\ call.err >= call.tol
    /\ call.tol > 0

\* The place of a cell, or of the loop inside a cell, in the notebook.
Rank(p) ==
    CASE p = "load_nx" -> 1
      [] p = "pagerank_nx" -> 2
      [] p = "nx_loop" -> 3
      [] p = "load_cudf" -> 4
      [] p = "make_graph" -> 5
      [] p = "pagerank_cu" -> 6
      [] p = "cu_loop" -> 7
      [] p = "best_scan" -> 8
      [] p = "scan_loop" -> 9
      [] p = "pr_max" -> 10
      [] p = "call_report" -> 11
      [] p = "report_loop" -> 12
      [] p = "sort" -> 13
      [] p = "head" -> 14
      [] OTHER -> 15

Loops == {"nx_loop", "cu_loop", "scan_loop", "report_loop"}

AssignedBefore(r) ==
    (IF r >= 2 THEN {"Gnx"} ELSE {})
    \cup (IF r >= 4 THEN {"pr_nx"} ELSE {})
    \cup (IF r >= 5 THEN {"gdf"} ELSE {})
    \cup (IF r >= 6 THEN {"G"} ELSE {})
    \cup (IF r >= 8 THEN {"gdf_page"} ELSE {})
    \cup (IF r >= 9 THEN {"bestScore", "bestVert"} ELSE {})
    \cup (IF r >= 11 THEN {"pr_max"} ELSE {})
    \cup (IF r >= 14 THEN {"sort_pr"} ELSE {})

C10_Placed ==
    /\ pc # "failed" => assigned = AssignedBefore(Rank(pc)) /\ err = "none"
    /\ pc = "failed" => err # "none"

C10_Forward ==
    /\ pc \notin {"failed", "done"}
    /\ Rank(pc') >= Rank(pc)
    /\ Rank(pc') = Rank(pc) => pc \in Loops
    /\ assigned \subseteq assigned'

ReportingCells ==
    {"best_scan", "scan_loop", "pr_max", "call_report", "report_loop", "sort", "head"}

\* The inputs of the reporting cells as they were made: the edge list is the rows
\* read from the data file, the score table is the frame cugraph.pagerank
\* returned (without rows when the graph has no edge).
C11_AsCreated ==
    /\ "gdf" \in assigned => gdf = ReadCsvRows(datafile)
    /\ "G" \in assigned =>
          G.edges = [k \in 1..Len(gdf) |-> <<gdf[k].src, gdf[k].dst>>]
    /\ "gdf_page" \in assigned =>
          gdf_page = IF call.fn = "cugraph.pagerank" THEN CuFrame(call.x) ELSE <<>>

\* No step of a reporting cell changes the data file, the edge list, the graph
\* or the score table.
C11_Frame ==
    pc \in ReportingCells => UNCHANGED <<datafile, gdf, G, gdf_page>>

\* C11: the reporting steps leave their inputs unchanged: through the scan of
\* cell 12, print_pagerank_threshold and the sort and head of cells 16 and 17,
\* gdf_page holds the rows cugraph.pagerank returned, in the same order, and the
\* edge list is the one that was loaded.
C11_ReportingLeavesInputsUnchanged == [](C11_AsCreated) /\ [][C11_Frame]_vars

\* The whole report done on a table of three rows or more that the sort had to
\* reorder, the edge list holding two edges.
C11_Witness ==
    /\ pc = "done"
    /\ Len(gdf) = 2
    /\ Len(gdf_page) >= 3
    /\ sort_pr # gdf_page
    /\ Len(out.report) >= 1
    /\ Len(out.head) = 3

\* The rounding the fixed-point sweeps may leave in a sum of scores: 0.0001.
SumTolerance == Scale \div 10000

\* C12: for the data file of the two lines 1<TAB>2 and 2<TAB>3 and the
\* parameters of cell 4 (alpha 0.85, max_iter 100, tol 1e-5), nx.pagerank
\* returns, the reference score table has exactly the keys 1, 2 and 3, every
\* score is strictly positive and the scores sum to 1.0 within tolerance.
C12_TwoEdgeScenario ==
    /\ err # "PowerIterationFailedConvergence"
    /\ "pr_nx" \in assigned =>
          /\ DOMAIN pr_nx = {"1", "2", "3"}
          /\ \A n \in DOMAIN pr_nx : pr_nx[n] > 0
          /\ Abs(SumFn(pr_nx) - Scale) <= SumTolerance

\* The file as the scenario writes it has been ranked: the middle vertex 2
\* scores highest and the two ends score the same.
C12_Witness ==
    /\ datafile = <<<<"1", "2">>, <<"2", "3">>>>
    /\ "pr_nx" \in assigned
    /\ pr_nx["2"] > pr_nx["1"]
    /\ pr_nx["1"] = pr_nx["3"]
    /\ call.fn = "nx.pagerank"
    /\ call.iters >= 2

\* An absolute difference of 1e-3.
AgreeTolerance == Scale \div 1000

\* The rows holding the highest score of the accelerated table, the keys
\* holding the highest score of the reference table.
TopRows(df) == {k \in 1..Len(df) : \A j \in 1..Len(df) : df[j].pagerank <= df[k].pagerank}
TopKeys(pr) == {n \in DOMAIN pr : \A m \in DOMAIN pr : pr[m] <= pr[n]}

\* C13: both tables computed from one well-formed data file with the
\* parameters of cell 4, the accelerated score of every vertex that is in both
\* tables is within 1e-3 of its reference score, and a vertex with the highest
\* accelerated score has the highest reference score.
C13_AcceleratedAgreesWithReference ==
    (AllWellFormed(datafile) /\ "pr_nx" \in assigned /\ "gdf_page" \in assigned) =>
        /\ \A k \in 1..Len(gdf_page) : \A n \in DOMAIN pr_nx :
              IntOf(n) = gdf_page[k].vertex =>
                  Abs(gdf_page[k].pagerank - pr_nx[n]) < AgreeTolerance
        /\ \A k \in TopRows(gdf_page) :
              \E n \in TopKeys(pr_nx) : IntOf(n) = gdf_page[k].vertex

\* Row k holds the highest score among the first n rows of df, and no row before
\* it does.
FirstBestOf(df, n, k) ==
    /\ k \in 1..n
    /\ \A j \in 1..n : df[j].pagerank <= df[k].pagerank
    /\ \A j \in 1..(k - 1) : df[j].pagerank < df[k].pagerank

\* bestScore and bestVert are the score and the vertex of the first of the rows
\* holding the highest score among the first n rows.
BestIsFirstBestOf(n) ==
    \E k \in 1..n :
        /\ FirstBestOf(gdf_page, n, k)
        /\ bestScore = gdf_page[k].pagerank
        /\ bestVert = gdf_page[k].vertex

\* C14: after the scan of cell 12 over a table that is not empty, bestScore is
\* the highest score of the table and bestVert is the vertex of the first row,
\* in table order, that holds it; while the loop runs they are that of the rows
\* scanned so far; and the line printed names them.
C14_ScanFindsFirstMaximum ==
    /\ pc = "scan_loop" => BestIsFirstBestOf(IF i = 0 THEN 1 ELSE i)
    /\ ("bestScore" \in assigned /\ pc # "scan_loop") =>
          /\ BestIsFirstBestOf(Len(gdf_page))
          /\ bestScore = ColMax(gdf_page)
          /\ out.scan = <<BestLine(bestVert, bestScore)>>

\* The scan done on a table whose highest score is held by the second and the
\* third row, not by the first.
C14_Witness ==
    /\ pc = "pr_max"
    /\ Len(gdf_page) = 3
    /\ gdf_page[1].pagerank < gdf_page[2].pagerank
    /\ gdf_page[2].pagerank = gdf_page[3].pagerank
    /\ bestVert = gdf_page[2].vertex

\* C15: the scan of cell 12 and the max-then-filter report of cells 13 to 15
\* agree on every table that is not empty: bestScore equals pr_max, the line the
\* scan printed is among the lines print_pagerank_threshold(gdf_page, pr_max)
\* printed (it is the first of them), and when one row alone holds the maximum
\* the two cells printed the same single line.
C15_ScanAgreesWithMaxThenFilter ==
    /\ "pr_max" \in assigned => bestScore = pr_max
    /\ (pc \in {"sort", "head", "done"} /\ t_mode = "pr_max") =>
          /\ Len(Emitted) >= 1
          /\ Emitted[1] = BestLine(bestVert, bestScore)
          /\ Emitted[1] = out.scan[1]
          /\ (\E k \in 1..Len(gdf_page) : UniqueMaxRow(gdf_page, k)) =>
                Emitted = out.scan

\* Both cells have printed for a table whose highest score is held by two rows:
\* the report has two lines, the first is the line of the scan.
C15_Witness ==
    /\ pc = "sort"
    /\ t_mode = "pr_max"
    /\ Len(gdf_page) = 3
    /\ Len(Emitted) = 2
    /\ Emitted[1] = out.scan[1]
    /\ LineVertex(Emitted[2]) # bestVert

Min(a, b) == IF a < b THEN a ELSE b

Labels(df) == {df[k].label : k \in 1..Len(df)}

\* C16: the top-three step (cell 16's sort by pagerank descending, cell 17's
\* head(3)) returns min(3, number of rows) rows of the score table, each a row
\* of the table with its own vertex and score and none twice, in non-increasing
\* score order, and every row it does not return has a score lower than or
\* equal to the score of every row it returns.
C16_TopThree ==
    /\ "sort_pr" \in assigned =>
          /\ Len(sort_pr) = Len(gdf_page)
          /\ \A k \in 1..Len(gdf_page) : \E n \in 1..Len(sort_pr) : sort_pr[n] = gdf_page[k]
    /\ pc = "done" =>
          /\ Len(out.head) = Min(HeadRows, Len(gdf_page))
          /\ \A n \in 1..(Len(out.head) - 1) :
                out.head[n].pagerank >= out.head[n + 1].pagerank
          /\ \A n \in 1..Len(out.head) :
                \E k \in 1..Len(gdf_page) : out.head[n] = gdf_page[k]
          /\ Cardinality(Labels(out.head)) = Len(out.head)
          /\ \A k \in 1..Len(gdf_page) :
                gdf_page[k].label \notin Labels(out.head) =>
                    \A n \in 1..Len(out.head) :
                        gdf_page[k].pagerank <= out.head[n].pagerank

\* The top three of a table of four rows: the row left out scores strictly
\* less than the three returned, which are not in table order.
C16_Witness ==
    /\ pc = "done"
    /\ Len(gdf_page) = 4
    /\ Len(out.head) = 3
    /\ out.head[1].vertex > out.head[2].vertex
    /\ \E k \in 1..4 :
          /\ gdf_page[k].label \notin Labels(out.head)
          /\ gdf_page[k].pagerank < out.head[3].pagerank

\* The edges the well-formed lines of a data file give, as pairs of integers.
FileEdges(lines) ==
    {<<IntOf(lines[k][1]), IntOf(lines[k][2])>> :
        k \in {j \in 1..Len(lines) : WellFormed(lines[j])}}

Symmetrized(edges) == edges \cup {<<e[2], e[1]>> : e \in edges}

\* C17: cugraph.pagerank(G), called without parameters, runs with alpha 0.85,
\* max_iter 100 and tol 1e-5, which are the alpha, max_iter and tol of cell 4
\* that nx.pagerank is passed, and both graphs are built from the one data
\* file: G holds the edges of its lines and, the file well-formed, Gnx holds the
\* same edges in both directions.
C17_SameConfigurationSameData ==
    /\ call.fn \in {"nx.pagerank", "cugraph.pagerank"} =>
          /\ call.alpha = alpha /\ call.alpha = AlphaCell
          /\ call.max_iter = max_iter /\ call.max_iter = MaxIterCell
          /\ call.tol = tol /\ call.tol = Scale \div TolCellInv
    /\ "G" \in assigned =>
          {G.edges[k] : k \in 1..Len(G.edges)} = FileEdges(datafile)
    /\ ("Gnx" \in assigned /\ AllWellFormed(datafile)) =>
          {<<IntOf(e[1]), IntOf(e[2])>> : e \in Gnx.adj}
              = Symmetrized(FileEdges(datafile))

\* cugraph.pagerank is iterating on the graph of a well-formed file of two
\* different edges, nx.pagerank having ranked the same file.
C17_Witness ==
    /\ call.fn = "cugraph.pagerank"
    /\ call.iters >= 2
    /\ AllWellFormed(datafile)
    /\ Cardinality(FileEdges(datafile)) = 2
    /\ "pr_nx" \in assigned
    /\ Cardinality(DOMAIN pr_nx) = 3

\* C18: in print_pagerank_threshold every lookup filtered['vertex'][i] and
\* filtered['pagerank'][i], i in 0..len(filtered)-1, reaches a row of the
\* filtered frame, the two lookups of an iteration reach the same row (the line
\* printed n-th is the vertex and the score of the n-th row) and different i
\* reach different rows, whatever row labels the rows that passed the filter
\* have kept.
C18_LookupsReachTheRows ==
    pc \in {"report_loop", "sort", "head", "done"} =>
        /\ Len(Emitted) <= Len(filtered)
        /\ pc = "report_loop" => Len(Emitted) = i
        /\ pc # "report_loop" => Len(Emitted) = Len(filtered)
        /\ \A n \in 1..Len(Emitted) :
              Emitted[n] = BestLine(filtered[n].vertex, filtered[n].pagerank)
        /\ Cardinality(Labels(filtered)) = Len(filtered)
        /\ \A n, m \in 1..Len(Emitted) :
              n # m => LineVertex(Emitted[n]) # LineVertex(Emitted[m])

\* The report done on a filtered frame that lost its middle row: the two rows
\* left are labelled 0 and 2, and both were printed.
C18_Witness ==
    /\ pc = "done"
    /\ Len(gdf_page) = 3
    /\ Len(filtered) = 2
    /\ filtered[1].label = 0
    /\ filtered[2].label = 2
    /\ Len(Emitted) = 2
    /\ LineVertex(Emitted[2]) = 2

====
